---------------------------- MODULE Spec2Model ----------------------------
(***************************************************************************)
(* A model of src/main.py (Fourier epicycle drawing): the Path state       *)
(* machine, the FourierDrawing orchestrator and the handlers of the main   *)
(* loop, with the numeric core (the DFT, the filter and sort, the epicycle *)
(* reconstruction).                                                        *)
(*                                                                         *)
(* Numbers.  Path.time and FourierDrawing.animation_speed are Python       *)
(* floats (IEEE-754 binary64).  The frame on which an animation completes  *)
(* depends on their rounding, so they are modelled bit for bit: a float is *)
(* a record [sgn, m, e] of value sgn * m * 2^e with m odd (or zero), m an  *)
(* arbitrary-precision natural held as a sequence of 15-bit limbs, and     *)
(* every operation rounds to 53 significant bits, ties to even.            *)
(* The coordinates of the complex plane (coefficients, reconstructed       *)
(* points) are modelled in fixed point with FixBits fractional bits; the   *)
(* roots of unity np.exp(-2j*pi*n*k/N) are exact where they are Gaussian   *)
(* integers (N = 1, 2, 4) and rounded to that precision elsewhere.         *)
(***************************************************************************)
EXTENDS Integers, Sequences, FiniteSets, TLC

(***************************************************************************)
(* Arbitrary-precision naturals: little-endian sequences of limbs in       *)
(* 0 .. Limb-1 without leading (high) zero limbs; zero is << >>.           *)
(***************************************************************************)
Limb == 2^15

RECURSIVE NatBitLen(_)
NatBitLen(n) == IF n = 0 THEN 0 ELSE 1 + NatBitLen(n \div 2)

LimbBits == NatBitLen(Limb) - 1

TailOf(s) == IF s = << >> THEN << >> ELSE Tail(s)
HeadOf(s) == IF s = << >> THEN 0 ELSE Head(s)

RECURSIVE BNorm(_)
BNorm(a) ==
    IF a = << >> THEN << >>
    ELSE IF a[Len(a)] = 0 THEN BNorm(SubSeq(a, 1, Len(a) - 1))
    ELSE a

RECURSIVE BFromNat(_)
BFromNat(n) == IF n = 0 THEN << >> ELSE <<n % Limb>> \o BFromNat(n \div Limb)

RECURSIVE BAddC(_, _, _)
BAddC(a, b, c) ==
    IF a = << >> /\ b = << >>
    THEN (IF c = 0 THEN << >> ELSE <<c>>)
    ELSE LET s == HeadOf(a) + HeadOf(b) + c
         IN  <<s % Limb>> \o BAddC(TailOf(a), TailOf(b), s \div Limb)

BAdd(a, b) == BAddC(a, b, 0)

\* a - b for a >= b
RECURSIVE BSubC(_, _, _)
BSubC(a, b, c) ==
    IF a = << >> THEN << >>
    ELSE LET d == Head(a) - HeadOf(b) - c
         IN  IF d < 0
             THEN <<d + Limb>> \o BSubC(Tail(a), TailOf(b), 1)
             ELSE <<d>> \o BSubC(Tail(a), TailOf(b), 0)

BSub(a, b) == BNorm(BSubC(a, b, 0))

\* -1, 0, 1 as a < b, a = b, a > b
RECURSIVE BCmpFrom(_, _, _)
BCmpFrom(a, b, i) ==
    IF i = 0 THEN 0
    ELSE IF a[i] < b[i] THEN -1
    ELSE IF a[i] > b[i] THEN 1
    ELSE BCmpFrom(a, b, i - 1)

BCmp(a, b) ==
    IF Len(a) < Len(b) THEN -1
    ELSE IF Len(a) > Len(b) THEN 1
    ELSE BCmpFrom(a, b, Len(a))

\* a * k for 0 <= k <= Limb
RECURSIVE BMulSmallC(_, _, _)
BMulSmallC(a, k, c) ==
    IF a = << >> THEN BFromNat(c)
    ELSE LET p == Head(a) * k + c
         IN  <<p % Limb>> \o BMulSmallC(Tail(a), k, p \div Limb)

BMulSmall(a, k) == IF k = 0 THEN << >> ELSE BMulSmallC(a, k, 0)

RECURSIVE BMul(_, _)
BMul(a, b) ==
    IF a = << >> \/ b = << >> THEN << >>
    ELSE LET rest == BMul(a, Tail(b))
         IN  BAdd(BMulSmall(a, Head(b)),
                  IF rest = << >> THEN << >> ELSE <<0>> \o rest)

\* a * 2^s
BShl(a, s) ==
    IF a = << >> THEN << >>
    ELSE [i \in 1 .. (s \div LimbBits) |-> 0] \o BMulSmall(a, 2^(s % LimbBits))

\* quotient and remainder of a by k, 1 <= k <= Limb
RECURSIVE BDivSmallFrom(_, _, _, _)
BDivSmallFrom(a, k, i, r) ==
    IF i = 0 THEN [q |-> << >>, r |-> r]
    ELSE LET cur  == r * Limb + a[i]
             rest == BDivSmallFrom(a, k, i - 1, cur % k)
         IN  [q |-> rest.q \o <<cur \div k>>, r |-> rest.r]

BDivSmall(a, k) ==
    LET res == BDivSmallFrom(a, k, Len(a), 0)
    IN  [q |-> BNorm(res.q), r |-> res.r]

\* floor(a / 2^s)
BShr(a, s) ==
    LET drop == s \div LimbBits
    IN  IF drop >= Len(a) THEN << >>
        ELSE BDivSmall(SubSeq(a, drop + 1, Len(a)), 2^(s % LimbBits)).q

BBitLen(a) ==
    IF a = << >> THEN 0 ELSE LimbBits * (Len(a) - 1) + NatBitLen(a[Len(a)])

BIsOdd(a) == a # << >> /\ a[1] % 2 = 1

RECURSIVE NatTrailingZeros(_)
NatTrailingZeros(n) == IF n % 2 = 1 THEN 0 ELSE 1 + NatTrailingZeros(n \div 2)

\* the number of trailing zero bits of a > 0
RECURSIVE BTrailingZeros(_)
BTrailingZeros(a) ==
    IF Head(a) = 0 THEN LimbBits + BTrailingZeros(Tail(a))
    ELSE NatTrailingZeros(Head(a))

(***************************************************************************)
(* IEEE-754 binary64 values and operations (round to nearest, ties to      *)
(* even).  The exponent range is never left by the values of this program  *)
(* (speeds in [0.1, 1], times below 2), so overflow and subnormals are not *)
(* modelled.                                                               *)
(***************************************************************************)
Precision == 53

FZero == [sgn |-> 1, m |-> << >>, e |-> 0]

\* the canonical record of sgn * M * 2^e, which is exactly representable
FCanon(sgn, M, e) ==
    IF M = << >> THEN FZero
    ELSE LET tz == BTrailingZeros(M)
         IN  [sgn |-> sgn, m |-> BShr(M, tz), e |-> e + tz]

\* sgn * (M * 2^e + a positive amount below 2^e when sticky) rounded
FRound(sgn, M, e, sticky) ==
    LET L == BBitLen(M)
    IN  IF L <= Precision THEN FCanon(sgn, M, e)
        ELSE LET sh   == L - Precision
                 q    == BShr(M, sh)
                 r    == BSub(M, BShl(q, sh))
                 half == BShl(<<1>>, sh - 1)
                 c    == BCmp(r, half)
                 up   == c > 0 \/ (c = 0 /\ (sticky \/ BIsOdd(q)))
             IN  FCanon(sgn, IF up THEN BAdd(q, <<1>>) ELSE q, e + sh)

FFromInt(y) ==
    FCanon(IF y < 0 THEN -1 ELSE 1, BFromNat(IF y < 0 THEN -y ELSE y), 0)

FNeg(a) == IF a.m = << >> THEN a ELSE [a EXCEPT !.sgn = -a.sgn]

MinInt(x, y) == IF x <= y THEN x ELSE y

FAdd(a, b) ==
    IF a.m = << >> THEN b
    ELSE IF b.m = << >> THEN a
    ELSE LET e == MinInt(a.e, b.e)
             A == BShl(a.m, a.e - e)
             B == BShl(b.m, b.e - e)
         IN  IF a.sgn = b.sgn THEN FRound(a.sgn, BAdd(A, B), e, FALSE)
             ELSE IF BCmp(A, B) >= 0 THEN FRound(a.sgn, BSub(A, B), e, FALSE)
             ELSE FRound(b.sgn, BSub(B, A), e, FALSE)

FMul(a, b) == FRound(a.sgn * b.sgn, BMul(a.m, b.m), a.e + b.e, FALSE)

\* a / n for an integer 1 <= n <= Limb: the quotient keeps over 60 bits
FDivInt(a, n) ==
    LET sh == 5 * LimbBits
        qr == BDivSmall(BShl(a.m, sh), n)
    IN  FRound(a.sgn, qr.q, a.e - sh, qr.r # 0)

\* -1, 0, 1 as a < b, a = b, a > b
FCmp(a, b) ==
    LET d == FAdd(a, FNeg(b))
    IN  IF d.m = << >> THEN 0 ELSE d.sgn

FLeq(a, b) == FCmp(a, b) <= 0
FLess(a, b) == FCmp(a, b) < 0
FMin(a, b) == IF FLess(b, a) THEN b ELSE a
FMax(a, b) == IF FLess(a, b) THEN b ELSE a

FOne == FFromInt(1)
FTenth == FDivInt(FOne, 10)

(***************************************************************************)
(* Fixed-point complex numbers: a pair <<re, im>> of integers in units of  *)
(* 1/FixScale.  abs(c) is compared through its square Mag2(c), which       *)
(* orders values as abs does.                                              *)
(***************************************************************************)
FixBits == 10
FixScale == 2^FixBits

WIDTH == 800
HEIGHT == 600

AbsInt(x) == IF x < 0 THEN -x ELSE x
\* division rounding toward zero, so that -(a / b) = (-a) / b as for floats
DivT(a, b) == IF a < 0 THEN -((-a) \div b) ELSE a \div b

CAdd(u, v) == <<u[1] + v[1], u[2] + v[2]>>
CConj(u) == <<u[1], -u[2]>>
\* the product of two values of scale FixScale, at scale FixScale
CMulFix(u, v) ==
    <<DivT(u[1] * v[1] - u[2] * v[2], FixScale),
      DivT(u[1] * v[2] + u[2] * v[1], FixScale)>>
\* an integer complex number times a value of scale FixScale
CMulInt(z, v) ==
    <<z[1] * v[1] - z[2] * v[2], z[1] * v[2] + z[2] * v[1]>>
CDivInt(u, n) == <<DivT(u[1], n), DivT(u[2], n)>>
Mag2(u) == u[1] * u[1] + u[2] * u[2]

\* pi/2 at scale FixScale (pi = 355/113 to seven digits)
HalfPiFix == (355 * FixScale) \div 226

\* the Taylor series of cos and sin at scale FixScale for x in [0, pi/2], up
\* to the power TaylorOrder: term is x^j / j!, and the next term of the same
\* parity is term * x^2 / ((j + 1) * (j + 2))
TaylorOrder == 12
NextTerm(term, x, j) == (term * x) \div (j * FixScale)

RECURSIVE AltSum(_, _, _, _)
AltSum(x, j, term, sign) ==
    IF j > TaylorOrder THEN 0
    ELSE sign * term
            + AltSum(x, j + 2, NextTerm(NextTerm(term, x, j + 1), x, j + 2),
                     -sign)

CosFix(x) == AltSum(x, 0, FixScale, 1)
SinFix(x) == AltSum(x, 1, x, 1)

\* exp(2*pi*i*p/q) for 0 <= p < q: exact on the axes, a quarter turn at a time
RotPos(p, q) ==
    LET k == (4 * p) \div q
        r == 4 * p - k * q
        x == (HalfPiFix * r) \div q
        b == IF r = 0 THEN <<FixScale, 0>> ELSE <<CosFix(x), SinFix(x)>>
    IN  CASE k = 0 -> b
          [] k = 1 -> <<-b[2], b[1]>>
          [] k = 2 -> <<-b[1], -b[2]>>
          [] k = 3 -> <<b[2], -b[1]>>

\* exp(2*pi*i*a/q) for any integer a: the conjugate for a negative angle
Rot(a, q) == IF a >= 0 THEN RotPos(a % q, q) ELSE CConj(RotPos((-a) % q, q))

(***************************************************************************)
(* Path: the numeric core.  A raw point is its position <<x, y>> (the      *)
(* timestamp of a DrawPoint is never read).  A coefficient is a pair       *)
(* <<n, c>> as in Path.epicycles.                                          *)
(***************************************************************************)
\* [complex(p.pos[0] - WIDTH/2, p.pos[1] - HEIGHT/2) for p in raw_points]
complex_points(raw_points) ==
    [k \in 1 .. Len(raw_points) |->
        <<raw_points[k][1] - WIDTH \div 2, raw_points[k][2] - HEIGHT \div 2>>]

\* a faulty variant of Frequencies: range(-(N//2), N//2), which has only
\* N - 1 indices for odd N
FrequenciesFromMinusFloor(N) ==
    LET lo == -(N \div 2)
        hi == N \div 2
    IN  [i \in 1 .. (hi - lo) |-> lo + i - 1]

\* range(-N//2, N//2): Python's -N//2 is the floor of (-N)/2
Frequencies(N) ==
    LET lo == (-N) \div 2
        hi == N \div 2
    IN  [i \in 1 .. (hi - lo) |-> lo + i - 1]

\* sum over k of complex_points[k] * exp(-2j*pi*n*k/N), from index k on
RECURSIVE CoefficientSum(_, _, _)
CoefficientSum(samples, n, k) ==
    IF k >= Len(samples) THEN <<0, 0>>
    ELSE CAdd(CMulInt(samples[k + 1], Rot(-(n * k), Len(samples))),
              CoefficientSum(samples, n, k + 1))

\* a faulty variant of Coefficient: the sum without the division by N
CoefficientUnscaled(samples, n) == CoefficientSum(samples, n, 0)

\* c = c / N
Coefficient(samples, n) == CDivInt(CoefficientSum(samples, n, 0), Len(samples))

\* every <<n, c>> of the loop, before the filter, in the order of the loop
RawCoefficients(samples) ==
    LET f == Frequencies(Len(samples))
    IN  [i \in 1 .. Len(f) |-> <<f[i], Coefficient(samples, f[i])>>]

\* a faulty variant of Significant: abs(c) >= 1
SignificantOrEqual(nc) == Mag2(nc[2]) >= FixScale * FixScale

\* abs(c) > 1
Significant(nc) == Mag2(nc[2]) > FixScale * FixScale

\* list.sort(key=abs, reverse=True) is stable: an element goes after every
\* element whose key is not smaller
RECURSIVE InsertDescending(_, _)
InsertDescending(nc, sorted) ==
    IF sorted = << >> THEN <<nc>>
    ELSE IF Mag2(Head(sorted)[2]) >= Mag2(nc[2])
         THEN <<Head(sorted)>> \o InsertDescending(nc, Tail(sorted))
         ELSE <<nc>> \o sorted

RECURSIVE SortDescending(_)
SortDescending(list) ==
    IF list = << >> THEN << >>
    ELSE InsertDescending(list[Len(list)],
                          SortDescending(SubSeq(list, 1, Len(list) - 1)))

\* Path.calculate_fourier: the new value of self.epicycles
calculate_fourier(raw_points, epicycles) ==
    IF Len(raw_points) < 2 THEN epicycles
    ELSE SortDescending(SelectSeq(RawCoefficients(complex_points(raw_points)),
                                  Significant))

\* x, y = WIDTH/2, HEIGHT/2
Center == <<(WIDTH \div 2) * FixScale, (HEIGHT \div 2) * FixScale>>

\* the loop of calculate_point and of draw_epicycles at time a/q: each
\* (n, c) moves the centre by abs(c) at angle 2*pi*n*t + angle(c), which is
\* c * exp(2j*pi*n*t)
RECURSIVE Chain(_, _, _, _)
Chain(epicycles, a, q, center) ==
    IF epicycles = << >> THEN center
    ELSE Chain(Tail(epicycles), a, q,
               CAdd(center, CMulFix(Head(epicycles)[2],
                                    Rot(Head(epicycles)[1] * a, q))))

\* Path.calculate_point(t) for t = a/q
calculate_point(epicycles, a, q) == Chain(epicycles, a, q, Center)

RECURSIVE BToNat(_)
BToNat(a) == IF a = << >> THEN 0 ELSE Head(a) + Limb * BToNat(Tail(a))

\* floor(t * FixScale) for a float 0 <= t < 1
TimeFix(t) ==
    IF t.m = << >> THEN 0
    ELSE IF t.e + FixBits >= 0 THEN BToNat(BShl(t.m, t.e + FixBits))
    ELSE BToNat(BShr(t.m, -(t.e + FixBits)))

\* a faulty variant of draw_epicycles: the chain starts at the origin of the
\* screen instead of its centre
draw_epicycles_from_origin(epicycles, t) ==
    Chain(epicycles, TimeFix(t), FixScale, <<0, 0>>)

\* Path.draw_epicycles(screen, t): the returned centre
draw_epicycles(epicycles, t) == Chain(epicycles, TimeFix(t), FixScale, Center)

(***************************************************************************)
(* Path objects and their methods.  id is the object's identity (the       *)
(* number of the Path() call that created it); display_index is never      *)
(* read and is left out.                                                   *)
(***************************************************************************)
DEFAULT_SPEED == FOne
SPEED_INCREMENT == FTenth

\* Path.__init__
NewPath(id) ==
    [id |-> id, raw_points |-> << >>, epicycles |-> << >>,
     animation_points |-> << >>, state |-> "drawing", time |-> FZero]

\* Path.add_point
add_point(p, pos) == [p EXCEPT !.raw_points = Append(@, pos)]

\* self.time += (1.0 / len(self.raw_points)) * speed
AdvancedTime(p, speed) ==
    FAdd(p.time, FMul(FDivInt(FOne, Len(p.raw_points)), speed))

\* a faulty variant of animate: the point is computed after the increment
animate_after_step(p, speed) ==
    IF p.state = "animating"
    THEN LET t     == AdvancedTime(p, speed)
             point == draw_epicycles(p.epicycles, t)
         IN  IF FLeq(FOne, t)
             THEN [p EXCEPT !.animation_points = Append(@, point),
                            !.time = FZero, !.state = "complete"]
             ELSE [p EXCEPT !.animation_points = Append(@, point),
                            !.time = t]
    ELSE p

\* a faulty variant of animate: the time is not reset when the path
\* completes
animate_keeping_time(p, speed) ==
    IF p.state = "animating"
    THEN LET point == draw_epicycles(p.epicycles, p.time)
             t     == AdvancedTime(p, speed)
         IN  [p EXCEPT !.animation_points = Append(@, point),
                       !.time = t,
                       !.state = IF FLeq(FOne, t) THEN "complete" ELSE @]
    ELSE p

\* Path.animate
animate(p, speed) ==
    IF p.state = "animating"
    THEN LET point == draw_epicycles(p.epicycles, p.time)
             t     == AdvancedTime(p, speed)
         IN  IF FLeq(FOne, t)
             THEN [p EXCEPT !.animation_points = Append(@, point),
                            !.time = FZero, !.state = "complete"]
             ELSE [p EXCEPT !.animation_points = Append(@, point),
                            !.time = t]
    ELSE p

\* a faulty variant of complete_animation: the point at the current time is
\* computed and appended
complete_animation_with_point(p) ==
    IF p.state = "animating"
    THEN [p EXCEPT !.state = "complete",
                   !.animation_points =
                       Append(@, draw_epicycles(p.epicycles, p.time))]
    ELSE p

\* Path.complete_animation
complete_animation(p) ==
    IF p.state = "animating" THEN [p EXCEPT !.state = "complete"] ELSE p

\* a faulty variant of Restarted: the coefficient list is put in the opposite
\* order
RestartedReversed(p) ==
    [p EXCEPT !.time = FZero, !.animation_points = << >>,
              !.state = "animating",
              !.epicycles = [i \in 1 .. Len(@) |-> @[Len(@) + 1 - i]]]

\* the three assignments that restart a path (lines 247-249 and 309-311)
Restarted(p) ==
    [p EXCEPT !.time = FZero, !.animation_points = << >>, !.state = "animating"]

\* a faulty variant of Transformed: the committed path is complete at once
TransformedComplete(p) ==
    [p EXCEPT !.epicycles = calculate_fourier(p.raw_points, @),
              !.state = "complete"]

\* lines 160-161: calculate_fourier() and state = "animating"
Transformed(p) ==
    [p EXCEPT !.epicycles = calculate_fourier(p.raw_points, @),
              !.state = "animating"]

\* for path in ...: path.complete_animation()
AllCompleted(list) == [i \in 1 .. Len(list) |-> complete_animation(list[i])]

\* a faulty variant of AllAnimated: drawing a complete path appends the
\* drawn point to its trace
AllAnimatedAndRedrawn(list, speed) ==
    [i \in 1 .. Len(list) |->
        IF list[i].state = "complete"
        THEN [list[i] EXCEPT !.animation_points =
                 Append(@, draw_epicycles(list[i].epicycles, list[i].time))]
        ELSE animate(list[i], speed)]

\* for path in drawing.paths: path.animate(screen, speed) (a complete path
\* is only drawn)
AllAnimated(list, speed) == [i \in 1 .. Len(list) |-> animate(list[i], speed)]

(***************************************************************************)
(* The state of main(): the FourierDrawing object and drawing_active.      *)
(* current_path is << >> for None and <<p>> for a Path p.  The attribute   *)
(* remaining_paths does not exist until the first replay-all sets it:      *)
(* has_remaining_paths says whether it does.  created counts the Path()    *)
(* calls (it numbers the objects); inputs counts the inputs a run has      *)
(* consumed (Path() calls, recorded points, MOUSEWHEEL events) and only    *)
(* bounds the runs.  The help overlay (show_help, help_rect),              *)
(* show_original and current_animation_index touch nothing below and are   *)
(* left out: the model is of the program with the help overlay closed.     *)
(***************************************************************************)
VARIABLES paths, completed_paths, remaining_paths, has_remaining_paths,
          current_path, animating_all, animation_speed, drawing_active,
          created, inputs

vars == <<paths, completed_paths, remaining_paths, has_remaining_paths,
          current_path, animating_all, animation_speed, drawing_active,
          created, inputs>>

\* the bound of the model: the inputs of a run (Path() calls, recorded
\* points, MOUSEWHEEL events)
MaxInputs == 6

\* the positions pygame.mouse.get_pos() returns
MousePositions == {<<WIDTH \div 2, HEIGHT \div 2>>, <<WIDTH \div 2 + 4, HEIGHT \div 2>>}
\* the values of event.y of a MOUSEWHEEL event
WheelSteps == {-5, -1, 1, 5}

\* FourierDrawing.__init__ and the first lines of main()
Init ==
    /\ paths = << >>
    /\ completed_paths = << >>
    /\ remaining_paths = << >>
    /\ has_remaining_paths = FALSE
    /\ current_path = << >>
    /\ animating_all = FALSE
    /\ animation_speed = DEFAULT_SPEED
    /\ drawing_active = FALSE
    /\ created = 0
    /\ inputs = 0

AnyAnimating(list) == \E i \in 1 .. Len(list) : list[i].state = "animating"

\* K_BACKSPACE, K_DELETE: clear canvas
KeyDelete ==
    /\ paths' = << >>
    /\ current_path' = << >>
    /\ animating_all' = FALSE
    /\ completed_paths' = << >>
    /\ UNCHANGED <<remaining_paths, has_remaining_paths, animation_speed,
                   drawing_active, created, inputs>>

\* a faulty variant of KeySpace: the queue drawing.remaining_paths is not
\* assigned
KeySpaceWithoutQueue ==
    /\ paths # << >>
    /\ paths' = <<Restarted(paths[1])>>
    /\ completed_paths' = << >>
    /\ animating_all' = TRUE
    /\ UNCHANGED <<remaining_paths, has_remaining_paths, current_path,
                   animation_speed, drawing_active, created, inputs>>

\* K_SPACE: replay-all
KeySpace ==
    /\ paths # << >>
    /\ paths' = <<Restarted(paths[1])>>
    /\ completed_paths' = << >>
    /\ animating_all' = TRUE
    /\ remaining_paths' = Tail(paths)
    /\ has_remaining_paths' = TRUE
    /\ UNCHANGED <<current_path, animation_speed, drawing_active, created,
                   inputs>>

\* a faulty variant of StartNewPath: clear_existing leaves the completed
\* collection as it is
StartNewPathKeepingCompleted(clear_existing) ==
    /\ inputs < MaxInputs
    /\ inputs' = inputs + 1
    /\ drawing_active' = TRUE
    /\ IF clear_existing
       THEN paths' = << >> /\ animating_all' = FALSE
       ELSE UNCHANGED <<paths, animating_all>>
    /\ current_path' = <<NewPath(created + 1)>>
    /\ created' = created + 1
    /\ UNCHANGED <<completed_paths, remaining_paths, has_remaining_paths,
                   animation_speed>>

\* FourierDrawing.start_new_path after drawing_active = True
StartNewPath(clear_existing) ==
    /\ inputs < MaxInputs
    /\ inputs' = inputs + 1
    /\ drawing_active' = TRUE
    /\ IF clear_existing
       THEN paths' = << >> /\ completed_paths' = << >> /\ animating_all' = FALSE
       ELSE UNCHANGED <<paths, completed_paths, animating_all>>
    /\ current_path' = <<NewPath(created + 1)>>
    /\ created' = created + 1
    /\ UNCHANGED <<remaining_paths, has_remaining_paths, animation_speed>>

\* FourierDrawing.complete_all_animations
CompleteAllAnimations ==
    /\ IF animating_all
       THEN /\ has_remaining_paths
            /\ paths' = AllCompleted(paths)
                            \o AllCompleted(remaining_paths)
            /\ remaining_paths' = << >>
            /\ animating_all' = FALSE
       ELSE /\ paths' = AllCompleted(paths)
            /\ UNCHANGED <<remaining_paths, animating_all>>
    /\ UNCHANGED <<completed_paths, has_remaining_paths, current_path,
                   animation_speed, drawing_active, created, inputs>>

\* MOUSEBUTTONDOWN, button 1: clear and draw new
MouseDownLeft == StartNewPath(TRUE)

\* MOUSEBUTTONDOWN, button 3: complete the animations, or add a new path
MouseDownRight ==
    \/ /\ animating_all \/ AnyAnimating(paths)
       /\ CompleteAllAnimations
    \/ /\ ~(animating_all \/ AnyAnimating(paths))
       /\ StartNewPath(FALSE)

\* a faulty variant of MouseUp: finish_current_path without the guard on the
\* number of points
MouseUpUnguarded ==
    /\ drawing_active' = FALSE
    /\ IF current_path # << >>
       THEN paths' = Append(paths, Transformed(current_path[1]))
       ELSE UNCHANGED paths
    /\ current_path' = << >>
    /\ UNCHANGED <<completed_paths, remaining_paths, has_remaining_paths,
                   animating_all, animation_speed, created, inputs>>

\* MOUSEBUTTONUP, button 1 or 3: drawing_active = False and
\* FourierDrawing.finish_current_path
MouseUp ==
    /\ drawing_active' = FALSE
    /\ IF current_path # << >> /\ Len(current_path[1].raw_points) > 1
       THEN paths' = Append(paths, Transformed(current_path[1]))
       ELSE UNCHANGED paths
    /\ current_path' = << >>
    /\ UNCHANGED <<completed_paths, remaining_paths, has_remaining_paths,
                   animating_all, animation_speed, created, inputs>>

\* a faulty variant of AdjustedSpeed: the lower bound is 0.0
AdjustedSpeedFromZero(speed, y) ==
    FMin(FOne, FMax(FZero, FAdd(speed, FMul(FFromInt(y), SPEED_INCREMENT))))

\* min(1.0, max(0.1, drawing.animation_speed + event.y * SPEED_INCREMENT))
AdjustedSpeed(speed, y) ==
    FMin(FOne, FMax(FTenth, FAdd(speed, FMul(FFromInt(y), SPEED_INCREMENT))))

\* MOUSEWHEEL with event.y = y
WheelEvent(y) ==
    /\ inputs < MaxInputs
    /\ inputs' = inputs + 1
    /\ animation_speed' = AdjustedSpeed(animation_speed, y)
    /\ UNCHANGED <<paths, completed_paths, remaining_paths,
                   has_remaining_paths, current_path, animating_all,
                   drawing_active, created>>

MouseWheel == \E y \in WheelSteps : WheelEvent(y)

\* a faulty variant of HandOff: the next path is popped from the end of the
\* queue
HandOffFromEnd(animated) ==
    IF animating_all /\ animated # << >> /\ animated[1].state = "complete"
    THEN IF remaining_paths # << >>
         THEN /\ completed_paths' = Append(completed_paths, animated[1])
              /\ paths' =
                    <<Restarted(remaining_paths[Len(remaining_paths)])>>
              /\ remaining_paths' =
                    SubSeq(remaining_paths, 1, Len(remaining_paths) - 1)
              /\ UNCHANGED animating_all
         ELSE /\ animating_all' = FALSE
              /\ paths' = Append(completed_paths, animated[1])
              /\ completed_paths' = << >>
              /\ UNCHANGED remaining_paths
    ELSE /\ paths' = animated
         /\ UNCHANGED <<completed_paths, remaining_paths, animating_all>>

\* the sequential hand-off of the main loop, on the paths as animated
HandOff(animated) ==
    IF animating_all /\ animated # << >> /\ animated[1].state = "complete"
    THEN IF remaining_paths # << >>
         THEN /\ completed_paths' = Append(completed_paths, animated[1])
              /\ paths' = <<Restarted(Head(remaining_paths))>>
              /\ remaining_paths' = Tail(remaining_paths)
              /\ UNCHANGED animating_all
         ELSE /\ animating_all' = FALSE
              /\ paths' = Append(completed_paths, animated[1])
              /\ completed_paths' = << >>
              /\ UNCHANGED remaining_paths
    ELSE /\ paths' = animated
         /\ UNCHANGED <<completed_paths, remaining_paths, animating_all>>

\* the rest of one pass of the main loop, after the events (lines 275-316):
\* the point of the stroke in progress, one frame of every animating path,
\* the hand-off
Tick ==
    /\ IF drawing_active /\ current_path # << >>
       THEN /\ inputs < MaxInputs
            /\ inputs' = inputs + 1
            /\ \E pos \in MousePositions :
                   current_path' = <<add_point(current_path[1], pos)>>
       ELSE UNCHANGED <<current_path, inputs>>
    /\ HandOff(AllAnimated(paths, animation_speed))
    /\ UNCHANGED <<has_remaining_paths, animation_speed, drawing_active,
                   created>>

Next ==
    \/ KeyDelete
    \/ KeySpace
    \/ MouseDownLeft
    \/ MouseDownRight
    \/ MouseUp
    \/ MouseWheel
    \/ Tick

Spec == Init /\ [][Next]_vars

(***************************************************************************)
(* Other starting points of the same program, each a state the program     *)
(* reaches, for the claims about one stroke, about the wheel alone and     *)
(* about a replay of completed paths.                                      *)
(***************************************************************************)
\* bounds: the samples of an arbitrary stroke, the points of a long stroke,
\* the paths of a replay, the largest wheel step
MaxSamples == 4
MaxLong == 10
MaxReplay == 3
MaxWheelStep == 10

StrokePositions ==
    {<<WIDTH \div 2, HEIGHT \div 2>>, <<WIDTH \div 2 + 2, HEIGHT \div 2>>,
     <<WIDTH \div 2 + 4, HEIGHT \div 2>>, <<WIDTH \div 2, HEIGHT \div 2 + 4>>}

\* a stroke along the sides of a small square around the centre
LongStroke(N) ==
    [k \in 1 .. N |->
        CASE k % 4 = 1 -> <<WIDTH \div 2 + 3, HEIGHT \div 2>>
          [] k % 4 = 2 -> <<WIDTH \div 2, HEIGHT \div 2 + 3>>
          [] k % 4 = 3 -> <<WIDTH \div 2 - 3, HEIGHT \div 2>>
          [] OTHER     -> <<WIDTH \div 2, HEIGHT \div 2 - 3>>]

Strokes ==
    UNION {[1 .. N -> StrokePositions] : N \in 0 .. MaxSamples}
        \cup {LongStroke(N) : N \in 1 .. MaxLong}

\* after a left click and Len(stroke) frames with the button held
InitStroke ==
    /\ paths = << >>
    /\ completed_paths = << >>
    /\ remaining_paths = << >>
    /\ has_remaining_paths = FALSE
    /\ \E stroke \in Strokes :
          /\ current_path = <<[NewPath(1) EXCEPT !.raw_points = stroke]>>
          /\ inputs = Len(stroke) + 1
    /\ animating_all = FALSE
    /\ animation_speed = DEFAULT_SPEED
    /\ drawing_active = TRUE
    /\ created = 1

NextStroke == MouseUp \/ Tick

SpecStroke == InitStroke /\ [][NextStroke]_vars

NextSpeed == \E y \in -MaxWheelStep .. MaxWheelStep : WheelEvent(y)

SpecSpeed == Init /\ [][NextSpeed]_vars

\* a path drawn, released and animated to its end at speed
RECURSIVE RunAnimation(_, _)
RunAnimation(p, speed) ==
    IF p.state = "animating" THEN RunAnimation(animate(p, speed), speed) ELSE p

ReplayStrokes ==
    {<<<<WIDTH \div 2, HEIGHT \div 2>>, <<WIDTH \div 2 + 4, HEIGHT \div 2>>>>,
     LongStroke(3)}

RECURSIVE InputsOf(_)
InputsOf(list) ==
    IF list = << >> THEN 0 ELSE 1 + Len(Head(list).raw_points) + InputsOf(Tail(list))

\* k strokes drawn one after the other (right clicks), each animated to its
\* end at the default speed before the next
InitReplay ==
    /\ \E k \in 1 .. MaxReplay :
          \E strokes \in [1 .. k -> ReplayStrokes] :
              /\ paths = [i \in 1 .. k |->
                            RunAnimation(
                                Transformed([NewPath(i) EXCEPT !.raw_points = strokes[i]]),
                                DEFAULT_SPEED)]
              /\ created = k
    /\ inputs = InputsOf(paths)
    /\ completed_paths = << >>
    /\ remaining_paths = << >>
    /\ has_remaining_paths = FALSE
    /\ current_path = << >>
    /\ animating_all = FALSE
    /\ animation_speed = DEFAULT_SPEED
    /\ drawing_active = FALSE

\* replay-all invoked when no replay is running, then only frames
NextReplay == (~animating_all /\ KeySpace) \/ Tick

SpecReplay == InitReplay /\ [][NextReplay]_vars

\* bound: the inputs left to a run that starts on a drawn canvas
MaxClicks == 4

\* a canvas of k complete paths, as in InitReplay, with MaxClicks inputs to
\* come
InitCanvas ==
    /\ \E k \in 1 .. MaxReplay :
          \E strokes \in [1 .. k -> ReplayStrokes] :
              /\ paths = [i \in 1 .. k |->
                            RunAnimation(
                                Transformed([NewPath(i) EXCEPT !.raw_points = strokes[i]]),
                                DEFAULT_SPEED)]
              /\ created = k
    /\ inputs = MaxInputs - MaxClicks
    /\ completed_paths = << >>
    /\ remaining_paths = << >>
    /\ has_remaining_paths = FALSE
    /\ current_path = << >>
    /\ animating_all = FALSE
    /\ animation_speed = DEFAULT_SPEED
    /\ drawing_active = FALSE

\* replays and clicks on the drawn canvas
NextClicks ==
    \/ KeySpace
    \/ MouseDownLeft
    \/ MouseDownRight
    \/ MouseUp
    \/ Tick

SpecClicks == InitCanvas /\ [][NextClicks]_vars

(***************************************************************************)
(* The claims.                                                             *)
(***************************************************************************)
Indices(list) == 1 .. Len(list)
Ids(list) == [i \in Indices(list) |-> list[i].id]
AllComplete(list) == \A i \in Indices(list) : list[i].state = "complete"
\* the paths the orchestrator holds; the replay queue counts while a replay
\* runs
Stored ==
    completed_paths \o paths
        \o (IF animating_all THEN remaining_paths ELSE << >>)
StoredIds == {Stored[i].id : i \in Indices(Stored)}
OriginalOrder == [i \in 1 .. created |-> i]

\* C1: replay-all on k completed paths followed only by frames animates them
\* in their original order: while the replay runs exactly one stored path is
\* animating, the only active one, with the replayed paths before it and the
\* queued ones after it, all complete and in the original order; when the
\* replay has ended the active collection holds all k paths, complete, in
\* the original order.
C1_ReplayInOrder ==
    /\ animating_all =>
          /\ Len(paths) = 1
          /\ paths[1].state = "animating"
          /\ AllComplete(completed_paths)
          /\ AllComplete(remaining_paths)
          /\ Ids(Stored) = OriginalOrder
    /\ ~animating_all =>
          /\ Ids(paths) = OriginalOrder
          /\ AllComplete(paths)
          /\ completed_paths = << >>

\* a replay of three paths has run to its end
C1_Witness ==
    /\ has_remaining_paths
    /\ ~animating_all
    /\ Len(paths) = 3
    /\ AllComplete(paths)

\* C2: a force-complete invoked while an animation is in progress leaves
\* every active path complete and with a non-empty animated trace.
C2_ForceCompleteLeavesTraces ==
    [][((animating_all \/ AnyAnimating(paths)) /\ CompleteAllAnimations)
          => \A i \in Indices(paths') :
                /\ paths'[i].state = "complete"
                /\ paths'[i].animation_points # << >>]_vars

\* C3: a path held by the orchestrator is still held after every step that
\* is not an explicit reset (clear-canvas, or a left click).
C3_NeverDestroyed ==
    [][KeyDelete \/ MouseDownLeft \/ StoredIds \subseteq StoredIds']_vars

\* C4: a path of 10 raw points animated at speed 1.0 from its start is
\* animating after each of its first 9 frames and complete after its 10th.
C4_TenPointsTenFrames ==
    \A i \in Indices(paths) :
        Len(paths[i].raw_points) = 10 =>
            IF Len(paths[i].animation_points) < 10
            THEN paths[i].state = "animating"
            ELSE /\ Len(paths[i].animation_points) = 10
                 /\ paths[i].state = "complete"

\* C5: end-recording with a recording of 2 or more points appends it to the
\* active collection, transformed once, animating, at time 0 and with an
\* empty trace; with fewer than 2 points (or none in progress) it leaves the
\* active collection as it is; in both cases the completed collection is
\* unchanged and no recording is in progress afterwards.
C5_EndRecordingGuard ==
    [][MouseUp =>
          /\ current_path' = << >>
          /\ completed_paths' = completed_paths
          /\ IF current_path # << >> /\ Len(current_path[1].raw_points) >= 2
             THEN /\ Len(paths') = Len(paths) + 1
                  /\ SubSeq(paths', 1, Len(paths)) = paths
                  /\ LET q == paths'[Len(paths')]
                     IN  /\ q.id = current_path[1].id
                         /\ q.raw_points = current_path[1].raw_points
                         /\ q.state = "animating"
                         /\ q.time = FZero
                         /\ q.animation_points = << >>
                         /\ q.epicycles =
                               calculate_fourier(q.raw_points, << >>)
             ELSE paths' = paths]_vars

\* a recording of two points has just been committed
C5_Witness ==
    /\ current_path = << >>
    /\ paths # << >>
    /\ LET q == paths[Len(paths)]
       IN  /\ Len(q.raw_points) = 2
           /\ q.state = "animating"
           /\ q.animation_points = << >>

\* C6: the speed is in [0.1, 1.0] in every state, and every wheel request
\* with some step y sets it to old + y * 0.1 when that lies in the range, to
\* 1.0 when it is above and to 0.1 when it is below.
SpeedInRange == FLeq(FTenth, animation_speed) /\ FLeq(animation_speed, FOne)
Requested(y) == FAdd(animation_speed, FMul(FFromInt(y), FTenth))
C6_SpeedClamped ==
    /\ []SpeedInRange
    /\ [][\E y \in -MaxWheelStep .. MaxWheelStep :
            animation_speed' =
                IF FLess(FOne, Requested(y)) THEN FOne
                ELSE IF FLess(Requested(y), FTenth) THEN FTenth
                ELSE Requested(y)]_animation_speed

\* a request has been clamped to the lower bound
C6_Witness == inputs > 0 /\ animation_speed = FTenth

CeilHalf(N) == (N + 1) \div 2
FloorHalf(N) == N \div 2

\* C7 as stated: the frequency indices for N samples are the N consecutive
\* integers from -floor(N/2) to floor(N/2) - 1.
C7_IndicesFromMinusFloor ==
    \A i \in Indices(paths) :
        LET N == Len(paths[i].raw_points)
            f == Frequencies(N)
        IN  /\ Len(f) = N
            /\ \A j \in 1 .. Len(f) : f[j] = -FloorHalf(N) + j - 1

\* C7 amended: the frequency indices for N >= 2 samples are the N
\* consecutive integers from -ceil(N/2) to floor(N/2) - 1, ascending (the
\* two agree for even N), and every stored coefficient has one of them.
C7_IndicesFromMinusCeil ==
    \A i \in Indices(paths) :
        LET N == Len(paths[i].raw_points)
            f == Frequencies(N)
        IN  /\ Len(f) = N
            /\ \A j \in 1 .. N : f[j] = -CeilHalf(N) + j - 1
            /\ f[N] = FloorHalf(N) - 1
            /\ \A j \in Indices(paths[i].epicycles) :
                  /\ paths[i].epicycles[j][1] >= -CeilHalf(N)
                  /\ paths[i].epicycles[j][1] <= FloorHalf(N) - 1

\* a path of 3 samples holds the coefficient of index -2
C7_Witness ==
    \E i \in Indices(paths) :
        /\ Len(paths[i].raw_points) = 3
        /\ \E j \in Indices(paths[i].epicycles) : paths[i].epicycles[j][1] = -2

UnitSquared == FixScale * FixScale

\* C8: the stored list holds exactly the raw (index, coefficient) pairs of
\* magnitude strictly above 1.0, each once, by descending magnitude, and
\* of two of equal magnitude the one of smaller index first.
C8_FilteredAndSorted ==
    \A i \in Indices(paths) :
        LET e   == paths[i].epicycles
            raw == RawCoefficients(complex_points(paths[i].raw_points))
        IN  /\ \A j \in Indices(e) : Mag2(e[j][2]) > UnitSquared
            /\ \A j \in Indices(raw) :
                  Cardinality({k \in Indices(e) : e[k] = raw[j]}) =
                      IF Mag2(raw[j][2]) > UnitSquared THEN 1 ELSE 0
            /\ \A j \in Indices(e) : \E k \in Indices(raw) : e[j] = raw[k]
            /\ \A j \in 1 .. Len(e) - 1 :
                  \/ Mag2(e[j][2]) > Mag2(e[j + 1][2])
                  \/ /\ Mag2(e[j][2]) = Mag2(e[j + 1][2])
                     /\ e[j][1] < e[j + 1][1]

\* a path holds two coefficients of equal magnitude and has dropped one of
\* magnitude exactly 1.0
C8_Witness ==
    \E i \in Indices(paths) :
        LET e   == paths[i].epicycles
            raw == RawCoefficients(complex_points(paths[i].raw_points))
        IN  /\ \E j \in 1 .. Len(e) - 1 : Mag2(e[j][2]) = Mag2(e[j + 1][2])
            /\ \E j \in Indices(raw) : Mag2(raw[j][2]) = UnitSquared

\* half a pixel
Tolerance == FixScale \div 2
Near(u, v, tol) == AbsInt(u[1] - v[1]) <= tol /\ AbsInt(u[2] - v[2]) <= tol
Scaled(pos) == <<pos[1] * FixScale, pos[2] * FixScale>>

\* C9: the reconstruction from the unfiltered coefficients at t = k/N is
\* sample k, for every k: within the tolerance for every N >= 2, and exactly
\* for N = 2 and N = 4, whose roots of unity are exact.  Stated of every
\* path in the state its transform has run in (its samples never change
\* afterwards).
C9_RoundTrip ==
    \A i \in Indices(paths) :
        paths[i].animation_points = << >> =>
            LET pts == paths[i].raw_points
                N   == Len(pts)
                raw == RawCoefficients(complex_points(pts))
            IN  \A k \in 0 .. N - 1 :
                    Near(calculate_point(raw, k, N), Scaled(pts[k + 1]),
                         IF N \in {2, 4} THEN 0 ELSE Tolerance)

\* a path of 4 samples, not all the same, has just been transformed and
\* some coefficient of it is not zero
C9_Witness ==
    \E i \in Indices(paths) :
        /\ Len(paths[i].raw_points) = 4
        /\ paths[i].raw_points[1] # paths[i].raw_points[2]
        /\ paths[i].animation_points = << >>
        /\ paths[i].epicycles # << >>

CanvasCentre == <<400 * FixScale, 300 * FixScale>>

\* C10: a path none of whose coefficients passes the filter holds an empty
\* list, the reconstruction from an empty list is the canvas centre at every
\* time, and every point of the trace of such a path is the canvas centre.
C10_EmptyListIsCentre ==
    \A i \in Indices(Stored) :
        LET p   == Stored[i]
            raw == RawCoefficients(complex_points(p.raw_points))
        IN  /\ (\A j \in Indices(raw) : Mag2(raw[j][2]) <= UnitSquared)
                  => p.epicycles = << >>
            /\ p.epicycles = << >> =>
                  /\ \A j \in Indices(p.animation_points) :
                        p.animation_points[j] = CanvasCentre
                  /\ \A k \in 0 .. Len(p.raw_points) :
                        calculate_point(p.epicycles, k, Len(p.raw_points))
                            = CanvasCentre

\* a path with no coefficient has been animated to its end
C10_Witness ==
    \E i \in Indices(paths) :
        /\ paths[i].epicycles = << >>
        /\ paths[i].state = "complete"
        /\ Len(paths[i].animation_points) >= 2

\* every Path object the orchestrator refers to
Held == Stored \o current_path

\* C11: no input sequence reaches an unhandled error: whenever replay mode is
\* on (the only condition under which complete_all_animations and the
\* hand-off read drawing.remaining_paths) the attribute exists and the active
\* collection has a first element, and every path that animate can be called
\* on in state animating has raw points, so that 1.0 / len(raw_points) is
\* defined.
C11_NoFatalError ==
    /\ animating_all => has_remaining_paths
    /\ animating_all => paths # << >>
    /\ \A i \in Indices(Held) :
          Held[i].state = "animating" => Len(Held[i].raw_points) >= 2
    /\ \A i \in Indices(Stored) : Len(Stored[i].raw_points) >= 2

\* a replay with a queued path runs and its active path has been animated
\* for a frame
C11_Witness ==
    /\ animating_all
    /\ remaining_paths # << >>
    /\ paths # << >>
    /\ paths[1].animation_points # << >>


\* what the transform of a path reads and produces
Transform(p) == <<p.id, p.raw_points, p.epicycles>>
Transforms(list) == {Transform(list[i]) : i \in Indices(list)}
Recording == drawing_active /\ current_path # << >>

TimeInRange(p) == FLeq(FZero, p.time) /\ FLess(p.time, FOne)
\* time + (1 / N) * speed, as the frame computes it
Increment(p) == FMul(FDivInt(FOne, Len(p.raw_points)), animation_speed)
Due(p) == FLeq(FOne, FAdd(p.time, Increment(p)))

\* C13: the time of every path is in [0, 1) in every state; a pass of the
\* loop on an animating path whose time would reach 1 or more leaves it
\* complete with time 0; force-complete leaves every time as it was, below 1.
C13_TimeInRange ==
    /\ [](\A i \in Indices(Held) : TimeInRange(Held[i]))
    /\ [][\/ \A i \in Indices(paths) :
                  (paths[i].state = "animating" /\ Due(paths[i])) =>
                      \A j \in Indices(Stored') :
                          Stored'[j].id = paths[i].id =>
                              /\ Stored'[j].state = "complete"
                              /\ Stored'[j].time = FZero
          \/ ~Tick]_vars
    /\ [][CompleteAllAnimations =>
            /\ \A i \in Indices(paths') : TimeInRange(paths'[i])
            /\ \A i \in Indices(paths) : paths'[i].time = paths[i].time]_vars

\* a path has been force-completed in mid-animation, after a change of speed
C13_Witness ==
    /\ \E i \in Indices(paths) :
          /\ paths[i].state = "complete"
          /\ paths[i].time # FZero
    /\ animation_speed # FOne

\* the change of state tag from p to q, the same path before and after a
\* step, is one the lifecycle allows, made by the step that may make it
LegalChange(p, q) ==
    \/ /\ p.state = "drawing" /\ q.state = "animating"
       /\ MouseUp
       /\ current_path = <<p>>
       /\ Len(p.raw_points) >= 2
    \/ /\ p.state = "animating" /\ q.state = "complete"
       /\ \/ Tick /\ Due(p) /\ \E i \in Indices(paths) : paths[i] = p
          \/ CompleteAllAnimations
    \/ /\ p.state = "complete" /\ q.state = "animating"
       /\ \/ KeySpace /\ paths[1] = p
          \/ /\ Tick
             /\ animating_all
             /\ remaining_paths # << >>
             /\ Head(remaining_paths) = p

\* C14: the state tag of a path changes only recording -> animating (by
\* end-recording with 2 or more points), animating -> complete (by the frame
\* on which its time reaches 1, or by force-complete) and complete ->
\* animating (by replay-all on the first active path, or by the hand-off to
\* the head of the queue); in particular a frame leaves a complete active
\* path complete.
C14_LegalTransitions ==
    [][LET before == Held
           after  == Held'
       IN  /\ \A i \in Indices(before) : \A j \in Indices(after) :
                 (after[j].id = before[i].id
                     /\ after[j].state # before[i].state)
                         => LegalChange(before[i], after[j])
           /\ (~animating_all /\ ~animating_all' /\ Tick) =>
                 \A i \in Indices(paths) :
                     paths[i].state = "complete"
                         => paths'[i].state = "complete"
      ]_vars

\* a replay has handed over to a queued path: it went complete -> animating
C14_Witness ==
    /\ animating_all
    /\ completed_paths # << >>
    /\ paths # << >>
    /\ paths[1].state = "animating"

\* q is p at the start of a new animation with the transform p had
RestartOf(p, q) ==
    /\ q.time = FZero
    /\ q.animation_points = << >>
    /\ q.state = "animating"
    /\ Transform(q) = Transform(p)

\* C15: replay-all leaves the first active path, and the hand-off leaves the
\* head of the queue, as the only active path, at time 0 with an empty trace
\* and with the raw points and the coefficient list (contents and order) it
\* had; and no step changes the raw points or the coefficient list of a
\* stored path.
C15_ReplayReusesTransform ==
    [][/\ KeySpace => Len(paths') = 1 /\ RestartOf(paths[1], paths'[1])
       /\ (animating_all /\ animating_all'
                /\ Len(completed_paths') > Len(completed_paths) /\ Tick) =>
             /\ Len(paths') = 1
             /\ RestartOf(Head(remaining_paths), paths'[1])
       /\ LET before == Stored
              after  == Stored'
          IN  \A i \in Indices(before) : \A j \in Indices(after) :
                  after[j].id = before[i].id =>
                      Transform(after[j]) = Transform(before[i])
      ]_vars

\* the hand-off has just restarted a path of two coefficients whose earlier
\* animation had left it a trace
C15_Witness ==
    /\ animating_all
    /\ completed_paths # << >>
    /\ paths # << >>
    /\ paths[1].animation_points = << >>
    /\ paths[1].time = FZero
    /\ Len(paths[1].epicycles) = 2

\* C16: in every state in which replay mode is on, the active collection
\* holds exactly one path and no other stored path (queued or already
\* replayed) is in state animating.
C16_OneAtATime ==
    animating_all =>
        /\ Len(paths) = 1
        /\ ~AnyAnimating(completed_paths)
        /\ ~AnyAnimating(remaining_paths)

\* q is p after one frame of animation
Stepped(p, q) ==
    /\ Transform(q) = Transform(p)
    /\ Len(q.animation_points) = Len(p.animation_points) + 1
    /\ SubSeq(q.animation_points, 1, Len(p.animation_points))
          = p.animation_points
    /\ LET t == FAdd(p.time, Increment(p))
       IN  IF FLeq(FOne, t)
           THEN q.state = "complete" /\ q.time = FZero
           ELSE q.state = "animating" /\ q.time = t
    /\ q.animation_points[Len(q.animation_points)]
          = Chain(p.epicycles, TimeFix(p.time), FixScale, CanvasCentre)

\* C17: a pass of the loop appends to the trace of every active path in state
\* animating exactly one point, the reconstruction at its time before the
\* increment, keeps the earlier points, and advances its time by
\* (1 / N) * speed (to completion at time 0 when that reaches 1); it leaves
\* every complete active path as it was.  The first active path is always
\* kept, and outside a replay so is every active path.
C17_OnePointPerFrame ==
    [][LET after == Stored'
       IN  \/ /\ ~animating_all => Ids(paths') = Ids(paths)
              /\ paths # << >> =>
                    \E j \in Indices(after) : after[j].id = paths[1].id
              /\ \A i \in Indices(paths) : \A j \in Indices(after) :
                    after[j].id = paths[i].id =>
                        IF paths[i].state = "animating"
                        THEN Stepped(paths[i], after[j])
                        ELSE after[j] = paths[i]
           \/ ~Tick]_vars

\* a complete path with the two points of its two frames, and an animating
\* one with one frame behind it
C17_Witness ==
    /\ Len(paths) = 2
    /\ paths[1].state = "complete"
    /\ Len(paths[1].animation_points) = 2
    /\ paths[2].state = "animating"
    /\ Len(paths[2].animation_points) = 1

\* p with the tag complete in place of animating, and nothing else changed
Tagged(p) ==
    [p EXCEPT !.state = IF @ = "animating" THEN "complete" ELSE @]

\* C18: force-complete during a replay leaves replay mode off, the queue
\* empty and the active collection equal to the former active collection
\* followed by the former queue in its order; (in or out of a replay) every
\* path is as before the call, trace, time, raw points and coefficients,
\* but for the tag complete in place of animating; the completed collection
\* is unchanged.
C18_ForceCompleteDrains ==
    [][CompleteAllAnimations =>
          LET before == IF animating_all THEN paths \o remaining_paths
                        ELSE paths
          IN  /\ ~animating_all'
              /\ animating_all => remaining_paths' = << >>
              /\ Len(paths') = Len(before)
              /\ \A i \in Indices(before) : paths'[i] = Tagged(before[i])
              /\ completed_paths' = completed_paths]_vars

\* a replay of two paths has been force-completed after its first frame
C18_Witness ==
    /\ ~animating_all
    /\ has_remaining_paths
    /\ remaining_paths = << >>
    /\ Len(paths) = 2
    /\ AllComplete(paths)
    /\ paths[1].time # FZero
    /\ Len(paths[1].animation_points) = 1
    /\ paths[2].animation_points # << >>

\* a recording has just started: a new Path with no point yet
NewRecording ==
    /\ drawing_active'
    /\ Len(current_path') = 1
    /\ current_path'[1].raw_points = << >>
    /\ current_path'[1].epicycles = << >>
    /\ current_path'[1].animation_points = << >>
    /\ current_path'[1].state = "drawing"
    /\ \A i \in Indices(Held) : Held[i].id # current_path'[1].id

Busy == animating_all \/ AnyAnimating(paths)

\* C19: a left click empties the active and the completed collection, turns
\* replay mode off and starts a recording; a right click while no replay
\* runs and no active path is animating starts a recording and leaves the
\* active and completed collections and replay mode as they are; a right
\* click while a replay runs or an active path is animating completes the
\* animations and starts no recording.
C19_StartingARecording ==
    [][/\ MouseDownLeft =>
             /\ paths' = << >>
             /\ completed_paths' = << >>
             /\ ~animating_all'
             /\ NewRecording
       /\ (MouseDownRight /\ ~Busy) =>
             /\ UNCHANGED <<paths, completed_paths, animating_all>>
             /\ NewRecording
       /\ (MouseDownRight /\ Busy) =>
             /\ UNCHANGED <<current_path, drawing_active, created>>
             /\ ~animating_all'
             /\ ~AnyAnimating(paths')
      ]_vars

\* a left click has cleared a canvas of three paths in the middle of their
\* replay, and the stroke it started has been committed
C19_Witness ==
    /\ has_remaining_paths
    /\ remaining_paths # << >>
    /\ ~animating_all
    /\ completed_paths = << >>
    /\ Len(paths) = 1
    /\ paths[1].id = 4

\* C20: if the frames go on and no command arrives, every active path in
\* state animating eventually is complete.  A path that only frames animate
\* can become complete only while the orchestrator holds it, so the claim
\* requires what is stated here, which a finite run can refute: the path of
\* every active path that is still animating after a frame (its time has not
\* reached 1) is still held after that frame.
C20_AnimatingPathsAreKept ==
    [][Tick =>
          \A i \in Indices(paths) :
              (paths[i].state = "animating" /\ ~Due(paths[i])) =>
                  \E j \in Indices(Stored') : Stored'[j].id = paths[i].id]_vars

=============================================================================
